---------------------------- MODULE Spec2Model ----------------------------
(***************************************************************************)
(* Model of main.py (PDF Transaction Extractor).                           *)
(*                                                                         *)
(*   extract_tables_from_pdf  lines 16-77   the extraction adapter         *)
(*   process_transactions     lines 79-109  the transaction normalizer     *)
(*   main                     lines 111-144 the Streamlit page             *)
(*                                                                         *)
(* Python str values are TLA+ strings; a character is a string of length   *)
(* one.  The alphabet of the model is ASCII: digits, letters, '_', ',',   *)
(* '.', '/', blank and tab.                                                *)
(***************************************************************************)
EXTENDS Integers, Sequences, FiniteSets, TLC

(***************************************************************************)
(* Bounds of the model.                                                    *)
(***************************************************************************)
\* most tables the converter detects in one document
MaxTables == 2
\* most rows of one exported table
MaxRows == 2
\* most cells of one row handed directly to process_transactions
MaxCols == 2

(***************************************************************************)
(* Characters and the classes of Python's re module (str patterns).        *)
(***************************************************************************)
Ch(s, i) == SubSeq(s, i, i)

LowerAlphabet == "abcdefghijklmnopqrstuvwxyz"
UpperAlphabet == "ABCDEFGHIJKLMNOPQRSTUVWXYZ"

\* \d
Digit == {"0", "1", "2", "3", "4", "5", "6", "7", "8", "9"}
\* \s, and the characters str.strip() removes
Whitespace == {" ", "\t"}
Letter == {Ch(LowerAlphabet, i) : i \in 1..26} \cup {Ch(UpperAlphabet, i) : i \in 1..26}
\* \w
WordChar == Letter \cup Digit \cup {"_"}
\* [\d,]
AmountChar == Digit \cup {","}

\* str.upper() on one character
UpperCh(c) ==
    IF \E i \in 1..26 : Ch(LowerAlphabet, i) = c
    THEN Ch(UpperAlphabet, CHOOSE i \in 1..26 : Ch(LowerAlphabet, i) = c)
    ELSE c

RECURSIVE str_upper(_)
str_upper(s) == IF s = "" THEN "" ELSE UpperCh(Head(s)) \o str_upper(Tail(s))

\* s.replace(',', '')
RECURSIVE replace_commas(_)
replace_commas(s) ==
    IF s = "" THEN ""
    ELSE IF Head(s) = "," THEN replace_commas(Tail(s))
    ELSE Head(s) \o replace_commas(Tail(s))

\* s.strip(): leading and trailing whitespace removed
RECURSIVE lstrip(_)
lstrip(s) == IF s # "" /\ Head(s) \in Whitespace THEN lstrip(Tail(s)) ELSE s

RECURSIVE rstrip(_)
rstrip(s) ==
    IF s # "" /\ Ch(s, Len(s)) \in Whitespace THEN rstrip(SubSeq(s, 1, Len(s) - 1)) ELSE s

strip(s) == rstrip(lstrip(s))

(***************************************************************************)
(* The compiled pattern of line 81,                                        *)
(*   (\d{2}/\d{2}/\d{2})\s+(\d{2}/\d{2}/\d{2})\s+(\w+)\s+                  *)
(*   ([\d,]+\.\d{2})\s+([\d,]+\.\d{2})(?:Dr|Cr)                            *)
(* matched as re does: an element that fails makes the attempt at that     *)
(* start position fail.  Each greedy repetition is followed by an element  *)
(* outside its class (\s+ by a digit or word character, \w+ by \s, [\d,]+  *)
(* by '.'), so backtracking to a shorter repetition can never succeed and  *)
(* the maximal run is the only candidate.  Every Match* operator returns   *)
(* the position after the element, or 0 when the element does not match.   *)
(***************************************************************************)
RECURSIVE RunEnd(_, _, _)
RunEnd(s, i, class) ==
    IF i <= Len(s) /\ Ch(s, i) \in class THEN RunEnd(s, i + 1, class) ELSE i

\* X+ for a character class X
MatchPlus(s, i, class) ==
    IF i = 0 THEN 0 ELSE LET j == RunEnd(s, i, class) IN IF j > i THEN j ELSE 0

\* \d{2}
MatchTwoDigits(s, i) ==
    IF i > 0 /\ i + 1 <= Len(s) /\ Ch(s, i) \in Digit /\ Ch(s, i + 1) \in Digit
    THEN i + 2 ELSE 0

\* a literal string
MatchLit(s, i, lit) ==
    IF i > 0 /\ i + Len(lit) - 1 <= Len(s) /\ SubSeq(s, i, i + Len(lit) - 1) = lit
    THEN i + Len(lit) ELSE 0

\* \d{2}/\d{2}/\d{2}
MatchDate(s, i) ==
    MatchTwoDigits(s, MatchLit(s, MatchTwoDigits(s, MatchLit(s, MatchTwoDigits(s, i), "/")), "/"))

\* [\d,]+\.\d{2}
MatchAmount(s, i) ==
    MatchTwoDigits(s, MatchLit(s, MatchPlus(s, i, AmountChar), "."))

\* (?:Dr|Cr)
MatchSuffix(s, i) ==
    IF MatchLit(s, i, "Dr") > 0 THEN MatchLit(s, i, "Dr") ELSE MatchLit(s, i, "Cr")

NoMatch == [ok |-> FALSE]

\* pattern.match(s, i - 1): the match object (its end and groups 1..5), or NoMatch
MatchAt(s, i) ==
    LET e1 == MatchDate(s, i)
        b2 == MatchPlus(s, e1, Whitespace)
        e2 == MatchDate(s, b2)
        b3 == MatchPlus(s, e2, Whitespace)
        e3 == MatchPlus(s, b3, WordChar)
        b4 == MatchPlus(s, e3, Whitespace)
        e4 == MatchAmount(s, b4)
        b5 == MatchPlus(s, e4, Whitespace)
        e5 == MatchAmount(s, b5)
        e6 == MatchSuffix(s, e5)
    IN  IF e6 > 0
        THEN [ok |-> TRUE, start |-> i, end |-> e6,
              g1 |-> SubSeq(s, i, e1 - 1),  g2 |-> SubSeq(s, b2, e2 - 1),
              g3 |-> SubSeq(s, b3, e3 - 1), g4 |-> SubSeq(s, b4, e4 - 1),
              g5 |-> SubSeq(s, b5, e5 - 1)]
        ELSE NoMatch

\* pattern.search(s, pos - 1): the match at the leftmost position from pos on
SearchFrom(s, pos) ==
    LET starts == {i \in pos..Len(s) : MatchAt(s, i).ok}
    IN  IF starts = {} THEN NoMatch
        ELSE MatchAt(s, CHOOSE i \in starts : \A j \in starts : i <= j)

\* the scan of finditer from position pos: the leftmost match, then on from its
\* end (a match of this pattern is never empty)
RECURSIVE ScanFrom(_, _)
ScanFrom(s, pos) ==
    LET m == SearchFrom(s, pos)
    IN  IF m.ok THEN <<m>> \o ScanFrom(s, m.end) ELSE << >>

\* a scan that stops after the first match (re.search in place of finditer)
first_match_only(s) ==
    LET all == ScanFrom(s, 1) IN IF all = << >> THEN << >> ELSE <<all[1]>>

\* pattern.finditer(row_text), line 89
finditer(s) == ScanFrom(s, 1)

(***************************************************************************)
(* Cells, rows and tables.  A row is the sequence row.values() of its      *)
(* cells in column order; a cell is a str, a number or None/NaN.           *)
(***************************************************************************)
Str(v) == [kind |-> "str", val |-> v]
Num == [kind |-> "num", val |-> ""]
Null == [kind |-> "null", val |-> ""]

SeqsUpTo(S, n) == UNION {[1..k -> S] : k \in 0..n}

\* cells handed directly to process_transactions
NormCells ==
    { Str("01/01/24 02/01/24 DEBIT 100.00 900.00Dr"),
      Str("03/01/24 04/01/24 CREDIT 50.00 950.00Cr"),
      Str("05/01/24\t06/01/24  WDL 5.00 7.00Dr"),
      Str("01/01/24 02/01/24 Debit"),
      Str(" 2,500.00 10,000.00Cr "),
      Str("01/01/2024 02/01/24 DEBIT 100.00 900.00Dr"),
      Str("01/01/24 02/01/2024 DEBIT 100.00 900.00Dr"),
      Str("01/01/24 02/01/24 DEBIT 100.0 900.00Dr"),
      Str("01/01/24 02/01/24 DEBIT 100.00 900.000Dr"),
      Str("01/01/24 02/01/24 DEBIT 100.00 900.00"),
      Str("01/01/24 02/01/24 DEBIT 100.00 900.00 Dr"),
      Str("101/01/24 02/01/24 CREDIT 50.00 950.00Cr"),
      Str("07/01/24 08/01/24 DEBIT ,.00 ,.00Dr"),
      Str("09/01/24 10/01/24 POS 1.00 2.00Cr11/01/24"),
      Str("12/01/24 DEBIT 3.00 4.00Dr"),
      Str("Reference ABC 01/01/24"),
      Str("   "),
      Str(""),
      Num,
      Null }

NormRows == SeqsUpTo(NormCells, MaxCols) \ {<< >>}

\* rows of the tables the converter exports in the pipeline
PipeRows ==
    { << Str("01/01/24 02/01/24 DEBIT 100.00 900.00Dr"), Num, Str("   ") >>,
      << Str("03/01/24 04/01/24 credit 1,234.56"), Null,
         Str("10,000.00Cr 05/01/24 06/01/24 WDL 5.00 7.00Dr") >> }

\* table_df.to_dict('records') of one exported table
PipeTables == SeqsUpTo(PipeRows, MaxRows)

(***************************************************************************)
(* process_transactions, lines 79-109: the work on one row.                *)
(***************************************************************************)
\* a filter that keeps every str cell (the val.strip() test dropped)
keeps_any_str(cell) == cell.kind = "str"

\* line 85: isinstance(val, str) and val.strip()
cell_is_kept(cell) == cell.kind = "str" /\ strip(cell.val) # ""

\* " ".join(parts)
RECURSIVE join(_)
join(parts) ==
    IF parts = << >> THEN ""
    ELSE IF Len(parts) = 1 THEN parts[1]
    ELSE parts[1] \o " " \o join(Tail(parts))

\* line 85: the flattened text of a row
flatten(row) ==
    LET kept == SelectSeq(row, cell_is_kept)
    IN  join([i \in 1..Len(kept) |-> kept[i].val])

\* a derivation that fills Debit whatever the type token is
debit_always(tran_type, amount) == amount

\* line 96
debit_of(tran_type, amount) == IF tran_type = "DEBIT" THEN amount ELSE ""

\* line 97
credit_of(tran_type, amount) == IF tran_type = "CREDIT" THEN amount ELSE ""

\* lines 90-106: the record of one match
build_record(m) ==
    LET tran_type == str_upper(m.g3)
        amount == replace_commas(m.g4)
        balance == replace_commas(m.g5)
    IN  [PostDate |-> m.g1, ValueDate |-> m.g2, Details |-> tran_type,
         Debit |-> debit_of(tran_type, amount),
         Credit |-> credit_of(tran_type, amount),
         Balance |-> balance]

\* lines 86-107: the records one flattened text adds
text_records(text) ==
    IF text = "" THEN << >>
    ELSE LET ms == finditer(text) IN [i \in 1..Len(ms) |-> build_record(ms[i])]

\* an accumulation that puts a row's records in front
prepend_records(records, new) == new \o records

\* line 107: records.append(rec), for each match of the row in turn
append_records(records, new) == records \o new

(***************************************************************************)
(* State.                                                                  *)
(***************************************************************************)
VARIABLES
    pc,           \* where the run of main stands
    tmp_exists,   \* the file of NamedTemporaryFile(delete=False) is on disk
    exc,          \* str(e) of the exception raised in extract_tables_from_pdf, or "none"
    pending,      \* what the finally clause of line 69 resumes: "return" or "raise"
    doc_tables,   \* len(result.document.tables)
    table_index,  \* tables the loop of line 46 has taken
    all_tables,   \* the dict built at lines 41-62
    st_errors,    \* the messages st.error has shown, in order
    tables_data,  \* what extract_tables_from_pdf returned to main
    pt_t,         \* process_transactions: the table the loop of line 83 is at
    pt_r,         \* process_transactions: the row the loop of line 84 is at
    row_text,     \* process_transactions: the last flattened row text
    records,      \* process_transactions: the list records
    ui            \* what main has put on the page

vars == << pc, tmp_exists, exc, pending, doc_tables, table_index, all_tables,
           st_errors, tables_data, pt_t, pt_r, row_text, records, ui >>

extract_vars == << tmp_exists, exc, pending, doc_tables, table_index, all_tables >>
process_vars == << pt_t, pt_r, row_text, records >>

NoTables == [number_of_tables |-> 0, tables |-> << >>]
NoResult == [has_error |-> FALSE, error |-> "", number_of_tables |-> 0, tables |-> << >>]
BlankPage == [view |-> "none", found |-> 0, df |-> << >>, downloads |-> {}]

\* lines 49-58: the dict of one exported table
table_info(index, data) ==
    [table_number |-> index + 1, row_count |-> Len(data), data |-> data]

\* line 64
table_error(index, e) == "Error processing table " \o ToString(index + 1) \o ": " \o e

\* line 74
pdf_error(e) == "Error processing PDF: " \o e

\* line 142
NoTablesMessage == "No tables found in the PDF or error occurred during processing"

\* lines 73-77: the dict the handler returns
error_result(e) ==
    [has_error |-> TRUE, error |-> pdf_error(e), number_of_tables |-> 0, tables |-> << >>]

\* line 67: the dict the function returns on success
ok_result(tables) ==
    [has_error |-> FALSE, error |-> "",
     number_of_tables |-> tables.number_of_tables, tables |-> tables.tables]

Init ==
    /\ pc = "start"
    /\ tmp_exists = FALSE
    /\ exc = "none"
    /\ pending = "none"
    /\ doc_tables = 0
    /\ table_index = 0
    /\ all_tables = NoTables
    /\ st_errors = << >>
    /\ tables_data = NoResult
    /\ pt_t = 1
    /\ pt_r = 1
    /\ row_text = ""
    /\ records = << >>
    /\ ui = BlankPage

(***************************************************************************)
(* main, lines 114-118: the upload and the call of the extraction.         *)
(***************************************************************************)
Upload ==
    /\ pc = "start"
    /\ \E uploaded \in BOOLEAN :
          pc' = IF uploaded THEN "setup" ELSE "done"
    /\ UNCHANGED << extract_vars, st_errors, tables_data, process_vars, ui >>

(***************************************************************************)
(* extract_tables_from_pdf, lines 16-77.                                   *)
(***************************************************************************)
\* lines 19-33: the model directory is copied and the converter is built
ModelSetup ==
    /\ pc = "setup"
    /\ \/ /\ pc' = "mktemp"
          /\ exc' = exc
       \/ /\ pc' = "except"
          /\ exc' = "setup"
    /\ UNCHANGED << tmp_exists, pending, doc_tables, table_index, all_tables,
                    st_errors, tables_data, process_vars, ui >>

\* line 35: NamedTemporaryFile(delete=False, suffix=".pdf") creates the file
CreateTemp ==
    /\ pc = "mktemp"
    /\ \/ /\ pc' = "write"
          /\ tmp_exists' = TRUE
          /\ exc' = exc
       \/ /\ pc' = "except"
          /\ tmp_exists' = tmp_exists
          /\ exc' = "mktemp"
    /\ UNCHANGED << pending, doc_tables, table_index, all_tables,
                    st_errors, tables_data, process_vars, ui >>

\* lines 36-37: the uploaded bytes are written inside the with block, which
\* closes the file and, with delete=False, leaves it on disk; the try of
\* line 39 has not been entered, so an exception goes to the handler of line 72
WriteTemp ==
    /\ pc = "write"
    /\ \/ /\ pc' = "convert"
          /\ exc' = exc
       \/ /\ pc' = "except"
          /\ exc' = "write"
    /\ UNCHANGED << tmp_exists, pending, doc_tables, table_index, all_tables,
                    st_errors, tables_data, process_vars, ui >>

\* lines 40-44: the conversion, inside try ... finally
Convert ==
    /\ pc = "convert"
    /\ \/ \E n \in 0..MaxTables :
             /\ doc_tables' = n
             /\ all_tables' = [number_of_tables |-> n, tables |-> << >>]
             /\ table_index' = 0
             /\ pc' = "tables"
             /\ UNCHANGED << exc, pending >>
       \/ /\ pc' = "finally"
          /\ pending' = "raise"
          /\ exc' = "convert"
          /\ UNCHANGED << doc_tables, all_tables, table_index >>
    /\ UNCHANGED << tmp_exists, st_errors, tables_data, process_vars, ui >>

\* a handler that leaves the loop at the first failing table
break_after_failure(index, n) == n

\* lines 63-65: the handler ends with continue, the loop goes to the next table
continue_after_failure(index, n) == index + 1

\* lines 46-65: one round of the loop over result.document.tables
ExportTable ==
    /\ pc = "tables"
    /\ table_index < doc_tables
    /\ \/ \E data \in PipeTables :
             /\ all_tables' = [all_tables EXCEPT
                                 !.tables = Append(@, table_info(table_index, data))]
             /\ table_index' = table_index + 1
             /\ st_errors' = st_errors
       \/ /\ st_errors' = Append(st_errors, table_error(table_index, "export"))
          /\ table_index' = continue_after_failure(table_index, doc_tables)
          /\ all_tables' = all_tables
    /\ UNCHANGED << pc, tmp_exists, exc, pending, doc_tables, tables_data, process_vars, ui >>

\* line 67: return all_tables, which the finally clause runs before
LoopDone ==
    /\ pc = "tables"
    /\ table_index >= doc_tables
    /\ pc' = "finally"
    /\ pending' = "return"
    /\ UNCHANGED << tmp_exists, exc, doc_tables, table_index, all_tables,
                    st_errors, tables_data, process_vars, ui >>

\* lines 69-70: os.unlink(tmp_file_path); an exception of unlink replaces the
\* pending return or exception
Finally ==
    /\ pc = "finally"
    /\ \/ /\ tmp_exists' = FALSE
          /\ exc' = exc
          /\ IF pending = "return"
             THEN /\ pc' = "returned"
                  /\ tables_data' = ok_result(all_tables)
             ELSE /\ pc' = "except"
                  /\ tables_data' = tables_data
       \/ /\ tmp_exists' = tmp_exists
          /\ exc' = "unlink"
          /\ pc' = "except"
          /\ tables_data' = tables_data
    /\ pending' = "none"
    /\ UNCHANGED << doc_tables, table_index, all_tables, st_errors, process_vars, ui >>

\* a handler that lets the exception of os.unlink through
catches_all_but_unlink(e) == e # "unlink"

\* line 72: except Exception
handler_catches(e) == TRUE

\* lines 72-77
Except ==
    /\ pc = "except"
    /\ IF handler_catches(exc)
       THEN /\ pc' = "returned"
            /\ tables_data' = error_result(exc)
       ELSE /\ pc' = "crashed"
            /\ tables_data' = tables_data
    /\ UNCHANGED << extract_vars, st_errors, process_vars, ui >>

(***************************************************************************)
(* main, lines 120-144.                                                    *)
(***************************************************************************)
\* a test on the tables that were converted
has_converted_tables(td) == Len(td.tables) > 0

\* line 120
has_tables(td) == td.number_of_tables > 0

\* lines 120-121 and 141-144
MainBranch ==
    /\ pc = "returned"
    /\ IF has_tables(tables_data)
       THEN /\ pc' = "process"
            /\ pt_t' = 1
            /\ pt_r' = 1
            /\ records' = << >>
            /\ UNCHANGED << st_errors, ui, row_text >>
       ELSE /\ pc' = "done"
            /\ ui' = [ui EXCEPT !.view = "no_tables"]
            /\ st_errors' = st_errors \o <<NoTablesMessage>> \o
                              (IF tables_data.has_error THEN <<tables_data.error>> ELSE << >>)
            /\ UNCHANGED process_vars
    /\ UNCHANGED << extract_vars, tables_data >>

\* lines 84-107: one row of the current table
ProcessRow ==
    /\ pc = "process"
    /\ pt_t <= Len(tables_data.tables)
    /\ pt_r <= Len(tables_data.tables[pt_t].data)
    /\ LET text == flatten(tables_data.tables[pt_t].data[pt_r])
       IN  /\ row_text' = text
           /\ records' = append_records(records, text_records(text))
    /\ pt_r' = pt_r + 1
    /\ UNCHANGED << pc, extract_vars, st_errors, tables_data, pt_t, ui >>

\* line 83: the next table
NextTable ==
    /\ pc = "process"
    /\ pt_t <= Len(tables_data.tables)
    /\ pt_r > Len(tables_data.tables[pt_t].data)
    /\ pt_t' = pt_t + 1
    /\ pt_r' = 1
    /\ UNCHANGED << pc, extract_vars, st_errors, tables_data, row_text, records, ui >>

\* line 109 and lines 122-140: the frame is shown with both downloads
ShowResults ==
    /\ pc = "process"
    /\ pt_t > Len(tables_data.tables)
    /\ pc' = "done"
    /\ ui' = [view |-> "results", found |-> tables_data.number_of_tables,
              df |-> records, downloads |-> {"transactions.csv", "transactions.xlsx"}]
    /\ UNCHANGED << extract_vars, st_errors, tables_data, process_vars >>

Next ==
    \/ Upload
    \/ ModelSetup
    \/ CreateTemp
    \/ WriteTemp
    \/ Convert
    \/ ExportTable
    \/ LoopDone
    \/ Finally
    \/ Except
    \/ MainBranch
    \/ ProcessRow
    \/ NextTable
    \/ ShowResults

Spec == Init /\ [][Next]_vars

(***************************************************************************)
(* process_transactions on one table of one row: the state of main at      *)
(* line 121 after an extraction that returned that table.                  *)
(***************************************************************************)
InitNorm ==
    /\ pc = "process"
    /\ tmp_exists = FALSE
    /\ exc = "none"
    /\ pending = "none"
    /\ doc_tables = 1
    /\ table_index = 1
    /\ \E row \in NormRows :
          /\ all_tables = [number_of_tables |-> 1, tables |-> << table_info(0, <<row>>) >>]
          /\ tables_data = ok_result(all_tables)
    /\ st_errors = << >>
    /\ pt_t = 1
    /\ pt_r = 1
    /\ row_text = ""
    /\ records = << >>
    /\ ui = BlankPage

NextNorm ==
    \/ ProcessRow
    \/ NextTable
    \/ ShowResults

SpecNorm == InitNorm /\ [][NextNorm]_vars

(***************************************************************************)
(* The transaction line as a grammar over the whitespace-separated tokens  *)
(* of a text: what the properties below compare the records with.          *)
(***************************************************************************)
Min(S) == CHOOSE x \in S : \A y \in S : x <= y

NextBlank(s, i) ==
    LET ps == {p \in i..Len(s) : Ch(s, p) \in Whitespace}
    IN  IF ps = {} THEN Len(s) + 1 ELSE Min(ps)

NextNonBlank(s, i) ==
    LET ps == {p \in i..Len(s) : Ch(s, p) \notin Whitespace}
    IN  IF ps = {} THEN Len(s) + 1 ELSE Min(ps)

RECURSIVE TokensFrom(_, _)
TokensFrom(s, i) ==
    LET b == NextNonBlank(s, i)
    IN  IF b > Len(s) THEN << >>
        ELSE <<SubSeq(s, b, NextBlank(s, b) - 1)>> \o TokensFrom(s, NextBlank(s, b))

Tokens(s) == TokensFrom(s, 1)

\* dd/dd/dd and nothing else
IsDateToken(t) ==
    /\ Len(t) = 8
    /\ \A i \in {1, 2, 4, 5, 7, 8} : Ch(t, i) \in Digit
    /\ \A i \in {3, 6} : Ch(t, i) = "/"

IsWordToken(t) == Len(t) >= 1 /\ \A i \in 1..Len(t) : Ch(t, i) \in WordChar

\* digits and commas, a point, two digits
IsAmountToken(t) ==
    /\ Len(t) >= 4
    /\ \A i \in 1..(Len(t) - 3) : Ch(t, i) \in AmountChar
    /\ Ch(t, Len(t) - 2) = "."
    /\ Ch(t, Len(t) - 1) \in Digit
    /\ Ch(t, Len(t)) \in Digit

\* the token ends, after its first off characters, with a date
EndsWithDate(t, off) == Len(t) - off >= 8 /\ IsDateToken(SubSeq(t, Len(t) - 7, Len(t)))

\* the lengths n such that the token begins with an amount of n characters
\* followed at once by Dr or Cr (at most one such n)
BalanceLengths(t) ==
    {n \in 4..(Len(t) - 2) :
        IsAmountToken(SubSeq(t, 1, n)) /\ SubSeq(t, n + 1, n + 2) \in {"Dr", "Cr"}}

BeginsWithBalance(t) == BalanceLengths(t) # {}

\* tokens k..k+4 are a transaction line whose post date is the end of token k
LineAt(toks, k, off) ==
    /\ k + 4 <= Len(toks)
    /\ EndsWithDate(toks[k], off)
    /\ IsDateToken(toks[k + 1])
    /\ IsWordToken(toks[k + 2])
    /\ IsAmountToken(toks[k + 3])
    /\ BeginsWithBalance(toks[k + 4])

\* the same with token k a date token and nothing more
StrictLineAt(toks, k) == LineAt(toks, k, 0) /\ IsDateToken(toks[k])

\* the transaction lines of a token sequence, left to right, without overlap;
\* what follows the suffix in the last token of a line may start the next one
RECURSIVE LinesFrom(_, _, _)
LinesFrom(toks, k, off) ==
    IF k + 4 > Len(toks) THEN << >>
    ELSE IF LineAt(toks, k, off)
    THEN LET n == Min(BalanceLengths(toks[k + 4]))
         IN  << [post |-> SubSeq(toks[k], Len(toks[k]) - 7, Len(toks[k])),
                 value |-> toks[k + 1], type |-> toks[k + 2],
                 amount |-> toks[k + 3], balance |-> SubSeq(toks[k + 4], 1, n)] >>
             \o LinesFrom(toks, k + 4, n + 2)
    ELSE LinesFrom(toks, k + 1, 0)

Lines(text) == LinesFrom(Tokens(text), 1, 0)

\* r is t with its commas taken out
IsCommaStripped(t, r) ==
    LET keep == {i \in 1..Len(t) : Ch(t, i) # ","}
    IN  /\ Len(r) = Cardinality(keep)
        /\ \A i \in keep :
              Ch(r, i - Cardinality({j \in 1..i : Ch(t, j) = ","})) = Ch(t, i)

\* one or more digits, a point, two digits
IsPlainDecimal(x) ==
    /\ Len(x) >= 4
    /\ \A i \in (1..Len(x)) \ {Len(x) - 2} : Ch(x, i) \in Digit
    /\ Ch(x, Len(x) - 2) = "."

\* record rec is the record of line ln, field by field
RecordOfLine(rec, ln) ==
    /\ rec.PostDate = ln.post
    /\ rec.ValueDate = ln.value
    /\ rec.Details = str_upper(ln.type)
    /\ IsCommaStripped(ln.balance, rec.Balance)
    /\ \/ rec.Debit = ""
       \/ IsCommaStripped(ln.amount, rec.Debit)
    /\ \/ rec.Credit = ""
       \/ IsCommaStripped(ln.amount, rec.Credit)

(***************************************************************************)
(* Properties of process_transactions on one row (SpecNorm).               *)
(***************************************************************************)
\* the row handed to process_transactions
TheRow == tables_data.tables[1].data[1]

\* the loop of line 84 has taken the row
RowProcessed == pc \in {"process", "done"} /\ (pt_r > 1 \/ pt_t > 1)

\* the transaction lines of the row's flattened text
RowLines == Lines(row_text)

\* C1: every record has at most one of Debit and Credit filled: Debit is the
\* amount of its line without commas when the upper-cased type is "DEBIT" and
\* empty otherwise, Credit is that amount when the type is "CREDIT" and empty
\* otherwise, and any other type leaves both empty.
C1_DebitCreditByType ==
    RowProcessed =>
        \A k \in 1..Len(records) :
            LET rec == records[k]
            IN  /\ ~(rec.Debit # "" /\ rec.Credit # "")
                /\ k <= Len(RowLines)
                /\ IF rec.Details = "DEBIT"
                   THEN rec.Debit # "" /\ IsCommaStripped(RowLines[k].amount, rec.Debit)
                   ELSE rec.Debit = ""
                /\ IF rec.Details = "CREDIT"
                   THEN rec.Credit # "" /\ IsCommaStripped(RowLines[k].amount, rec.Credit)
                   ELSE rec.Credit = ""

\* a row gave a DEBIT record with its amount in Debit and a record of another
\* type with both fields empty
C1_Witness ==
    /\ RowProcessed
    /\ \E i, j \in 1..Len(records) :
          /\ records[i].Details = "DEBIT"
          /\ records[i].Debit = "100.00"
          /\ records[i].Credit = ""
          /\ records[j].Details = "WDL"
          /\ records[j].Debit = ""
          /\ records[j].Credit = ""

\* C7: a row adds one record per transaction line of its flattened text, all
\* of them and in left-to-right order.
C7_OneRecordPerMatch ==
    RowProcessed =>
        /\ Len(records) = Len(RowLines)
        /\ \A k \in 1..Len(records) : RecordOfLine(records[k], RowLines[k])

\* the text of two transaction lines separated by a blank gave its two records
C7_Witness ==
    /\ RowProcessed
    /\ row_text = "01/01/24 02/01/24 DEBIT 100.00 900.00Dr 03/01/24 04/01/24 CREDIT 50.00 950.00Cr"
    /\ records =
         << [PostDate |-> "01/01/24", ValueDate |-> "02/01/24", Details |-> "DEBIT",
             Debit |-> "100.00", Credit |-> "", Balance |-> "900.00"],
            [PostDate |-> "03/01/24", ValueDate |-> "04/01/24", Details |-> "CREDIT",
             Debit |-> "", Credit |-> "50.00", Balance |-> "950.00"] >>

\* C8: a text that breaks a sub-token constraint gives no record, that is, a
\* row gives a record only if its text holds five consecutive tokens that are
\* exactly a date (2 digits / 2 digits / 2 digits), a date, a word, an amount
\* (digits and commas, a point, 2 digits) and an amount followed at once by Dr
\* or Cr.
C8_AsClaimed ==
    RowProcessed /\ records # << >> =>
        \E k \in 1..Len(Tokens(row_text)) : StrictLineAt(Tokens(row_text), k)

\* What the unanchored pattern does guarantee: a row gives a record only if its
\* text holds five consecutive tokens of which the first ends with a date, the
\* next three are exactly a date, a word and an amount, and the fifth begins
\* with an amount followed at once by Dr or Cr.
NoRecordWithoutLine ==
    RowProcessed /\ records # << >> =>
        \E k \in 1..Len(Tokens(row_text)) : LineAt(Tokens(row_text), k, 0)

\* a text whose tokens are a date, a date, a word and an amount, with no
\* balance and suffix after them, gave no record
NearMissGaveNoRecord ==
    /\ RowProcessed
    /\ records = << >>
    /\ LET toks == Tokens(row_text)
       IN  \E k \in 1..Len(toks) :
              /\ k + 4 <= Len(toks)
              /\ IsDateToken(toks[k])
              /\ IsDateToken(toks[k + 1])
              /\ IsWordToken(toks[k + 2])
              /\ IsAmountToken(toks[k + 3])
              /\ ~BeginsWithBalance(toks[k + 4])

\* a str cell with a character that is not whitespace
IsTextCell(cell) ==
    cell.kind = "str" /\ \E i \in 1..Len(cell.val) : Ch(cell.val, i) \notin Whitespace

TextCells(row) == {i \in 1..Len(row) : IsTextCell(row[i])}

\* the characters of the text cells in S, one separator counted after each
RECURSIVE Width(_, _)
Width(row, S) ==
    IF S = {} THEN 0
    ELSE LET i == Min(S) IN Len(row[i].val) + 1 + Width(row, S \ {i})

\* where the text of cell i starts in the flattened text, less one
Offset(row, i) == Width(row, {j \in TextCells(row) : j < i})

\* C9: the flattened text of a row is its text cells (str, not empty after
\* trimming), untrimmed, in column order, one blank between neighbours; other
\* cells add nothing, and a row whose flattened text is empty adds no record.
C9_FlattenedText ==
    RowProcessed =>
        /\ Len(row_text) =
              IF TextCells(TheRow) = {} THEN 0 ELSE Width(TheRow, TextCells(TheRow)) - 1
        /\ \A i \in TextCells(TheRow) :
              /\ Offset(TheRow, i) + Len(TheRow[i].val) <= Len(row_text)
              /\ SubSeq(row_text, Offset(TheRow, i) + 1,
                        Offset(TheRow, i) + Len(TheRow[i].val)) = TheRow[i].val
              /\ Offset(TheRow, i) > 0 => Ch(row_text, Offset(TheRow, i)) = " "
        /\ row_text = "" => records = << >>

\* a whitespace-only cell before a text cell was skipped, separator and all
C9_Witness ==
    /\ RowProcessed
    /\ Len(TheRow) = 2
    /\ TheRow[1].kind = "str"
    /\ TheRow[1].val # ""
    /\ ~IsTextCell(TheRow[1])
    /\ IsTextCell(TheRow[2])
    /\ row_text = TheRow[2].val
    /\ records # << >>

\* C10: Balance and the filled one of Debit and Credit are the tokens of the
\* line without their commas, hence one or more digits, a point and two
\* digits.
C10_StoredDecimals ==
    RowProcessed =>
        \A k \in 1..Len(records) :
            /\ k <= Len(RowLines)
            /\ IsCommaStripped(RowLines[k].balance, records[k].Balance)
            /\ IsPlainDecimal(records[k].Balance)
            /\ records[k].Debit # "" => IsPlainDecimal(records[k].Debit)
            /\ records[k].Credit # "" => IsPlainDecimal(records[k].Credit)

(***************************************************************************)
(* Properties of the whole run (Spec).                                     *)
(***************************************************************************)
\* the transaction lines of the rows the converter exports, computed once
PipeRowLines == [row \in PipeRows |-> Lines(flatten(row))]

\* the transaction lines of a row's flattened text
LinesOfRow(row) ==
    IF row \in PipeRows THEN PipeRowLines[row] ELSE Lines(flatten(row))

\* the (table, row) places the loops of lines 83-84 have taken
TakenRows ==
    {p \in (1..Len(tables_data.tables)) \X (1..MaxRows + 1) :
        /\ p[2] <= Len(tables_data.tables[p[1]].data)
        /\ p[1] < pt_t \/ (p[1] = pt_t /\ p[2] < pt_r)}

\* p comes before q: table order, then row order within the table
Precedes(p, q) == p[1] < q[1] \/ (p[1] = q[1] /\ p[2] < q[2])

RowAt(p) == tables_data.tables[p[1]].data[p[2]]

\* how many transaction lines the rows at the places S hold
RECURSIVE LineCount(_)
LineCount(S) ==
    IF S = {} THEN 0
    ELSE LET p == CHOOSE q \in S : TRUE
         IN  Len(LinesOfRow(RowAt(p))) + LineCount(S \ {p})

\* C2: records holds, for every row taken, the records of that row's
\* transaction lines in left-to-right order, after the records of all rows
\* before it (table order, then row order) and before those of the rows after
\* it; it holds nothing else, and the page shows it unchanged.
C2_InputOrder ==
    pc \in {"process", "done"} =>
        /\ Len(records) = LineCount(TakenRows)
        /\ \A p \in TakenRows :
              LET before == LineCount({q \in TakenRows : Precedes(q, p)})
                  lines == LinesOfRow(RowAt(p))
              IN  \A k \in 1..Len(lines) :
                     /\ before + k <= Len(records)
                     /\ RecordOfLine(records[before + k], lines[k])
        /\ (pc = "done" /\ ui.view = "results") => ui.df = records

\* tables [T1, T2], one line in T1 and two in one row of T2, shown as m1, m2, m3
C2_Witness ==
    /\ pc = "done"
    /\ ui.view = "results"
    /\ Len(tables_data.tables) = 2
    /\ Len(tables_data.tables[1].data) = 1
    /\ Len(tables_data.tables[2].data) = 1
    /\ Len(LinesOfRow(tables_data.tables[1].data[1])) = 1
    /\ Len(LinesOfRow(tables_data.tables[2].data[1])) = 2
    /\ Len(ui.df) = 3
    /\ ui.df[1].Details = "DEBIT"
    /\ ui.df[2].Details = "CREDIT"
    /\ ui.df[3].Details = "WDL"

\* extract_tables_from_pdf has returned to main
Returned == pc \in {"returned", "process", "done"}

\* C3: once the temporary file has been created it is gone when
\* extract_tables_from_pdf returns, whatever failed (unless the deletion itself
\* is what failed).
C3_TempFileDeleted ==
    pc \in {"returned", "process", "done", "crashed"} => (~tmp_exists \/ exc = "unlink")

\* the numbers of the tables whose failure st.error has reported
ReportedTables ==
    {n \in 1..(MaxTables + 1) :
        \E i \in 1..Len(st_errors) : st_errors[i] = table_error(n - 1, "export")}

\* the numbers of the tables in the list
ListedTables == {all_tables.tables[j].table_number : j \in 1..Len(all_tables.tables)}

\* C4: a table that fails is reported and skipped and the loop goes on: at
\* every moment the list holds exactly the tables taken so far that did not
\* fail, in document order under their 1-based document numbers; the loop is
\* left only when every table of the document has been taken, and a return
\* without exception hands that list to main.
C4_TableFaultIsolation ==
    /\ ListedTables \cup ReportedTables = 1..table_index
    /\ ListedTables \cap ReportedTables = {}
    /\ \A i, j \in 1..Len(all_tables.tables) :
          i < j => all_tables.tables[i].table_number < all_tables.tables[j].table_number
    /\ all_tables.number_of_tables = doc_tables
    /\ table_index <= doc_tables
    /\ pc # "tables" => table_index = doc_tables
    /\ (Returned /\ exc = "none") =>
          /\ tables_data.tables = all_tables.tables
          /\ tables_data.number_of_tables = doc_tables

\* the first of two tables failed and was reported, the second is in the
\* returned list under number 2
C4_Witness ==
    /\ Returned
    /\ exc = "none"
    /\ doc_tables = 2
    /\ ReportedTables = {1}
    /\ Len(tables_data.tables) = 1
    /\ tables_data.tables[1].table_number = 2

\* C5: extract_tables_from_pdf never lets an exception out: after a failure of
\* the set-up, of the creation of the temporary file, of the conversion or of
\* the deletion it returns number_of_tables 0, no tables and the message of the
\* failure, and main then shows the no-tables state with that message, no
\* records and no downloads.
C5_NeverRaises ==
    /\ pc # "crashed"
    /\ (pc \in {"returned", "process", "done"} /\ exc # "none") =>
          /\ tables_data.number_of_tables = 0
          /\ tables_data.tables = << >>
          /\ tables_data.has_error
          /\ tables_data.error = "Error processing PDF: " \o exc
    /\ (pc \in {"process", "done"} /\ exc # "none") =>
          /\ pc = "done"
          /\ ui.view = "no_tables"
          /\ ui.df = << >>
          /\ ui.downloads = {}
          /\ Len(st_errors) >= 2
          /\ st_errors[Len(st_errors) - 1] = NoTablesMessage
          /\ st_errors[Len(st_errors)] = "Error processing PDF: " \o exc

\* the deletion failed after a conversion that found tables, and the run ended
\* in the no-tables state with the message of that failure
C5_Witness ==
    /\ pc = "done"
    /\ exc = "unlink"
    /\ doc_tables > 0
    /\ tables_data.number_of_tables = 0
    /\ ui.view = "no_tables"
    /\ st_errors[Len(st_errors)] = "Error processing PDF: unlink"

\* the run of main is over and a file had been uploaded
RunEnded == pc = "done" /\ ui.view # "none"

\* C6, as claimed: a run that ends with no table or no record ends in the
\* no-tables state.
C6_AsClaimed ==
    (RunEnded /\ (tables_data.tables = << >> \/ records = << >>)) => ui.view = "no_tables"

\* C6, amended: a run ends in the no-tables state exactly when the extraction
\* returned number_of_tables 0, that is when the conversion found no table or
\* the extraction failed; when tables were found the run ends in the results
\* state with both downloads, also when no table was converted or no record
\* was found.
C6_NoTablesState ==
    RunEnded =>
        /\ ui.view = "no_tables" <=> tables_data.number_of_tables = 0
        /\ tables_data.number_of_tables = 0 <=> (exc # "none" \/ doc_tables = 0)
        /\ ui.view = "no_tables" =>
              /\ ui.downloads = {}
              /\ \E i \in 1..Len(st_errors) : st_errors[i] = NoTablesMessage
        /\ ui.view # "no_tables" =>
              /\ ui.view = "results"
              /\ ui.found = doc_tables
              /\ ui.downloads = {"transactions.csv", "transactions.xlsx"}

\* every detected table failed to convert and the run ended in the results
\* state with no record
C6_Witness ==
    /\ RunEnded
    /\ doc_tables = 2
    /\ ReportedTables = {1, 2}
    /\ tables_data.tables = << >>
    /\ ui.view = "results"
    /\ ui.df = << >>

=============================================================================
